---- MODULE Spec2Model ----
(***************************************************************************)
(* Model of the hydrogen-bond stratifier (stratify_hbonds.py) and of the   *)
(* pi-cation detector (pi_cation.py, with the geometry helpers of          *)
(* contact_utils.py).  Atom labels are the program's colon-joined strings; *)
(* split, join, substring test and string ordering are computed on them.   *)
(***************************************************************************)
EXTENDS Integers, Sequences, FiniteSets, TLC

VARIABLES
    hbonds,        \* stratifier: the hbond list handed to the function under call
    solvent_resn,  \* stratifier: the solvent residue name
    calls,         \* stratifier: the calls of the last run, name -> [status, value]
    coords,        \* detector: the frame's coordinates, atom index -> <<x, y, z>>
    contacts,      \* detector: what "measure contacts" gave, <<indices, indices>>
    at,            \* detector: where compute_pi_cation is
    pi_cation_aromatic_grouping,  \* detector: key -> set of aromatic labels
    pending,       \* detector: the keys the loop of line 83 has yet to visit
    pi_cations,    \* detector: the records appended so far
    coord_queries, \* detector: the labels get_coord was called with, in order
    last           \* detector: the loop's last iteration, [key, size, outcome,
                   \* appended]

hb_vars == <<hbonds, solvent_resn, calls>>

pc_vars == <<coords, contacts, at, pi_cation_aromatic_grouping, pending,
             pi_cations, coord_queries, last>>

vars == <<hb_vars, pc_vars>>

----------------------------------------------------------------------------
(* Bounds                                                                  *)

MaxHbonds == 4

MaxContacts == 6

----------------------------------------------------------------------------
(* Python strings                                                          *)

Char(s, i) == SubSeq(s, i, i)

\* Python: t in s  (substring test on str)
Contains(s, t) ==
    \E i \in 1..(Len(s) - Len(t) + 1) : SubSeq(s, i, i + Len(t) - 1) = t

\* Python: s.split(sep) for a one-character separator
RECURSIVE split(_, _)
split(s, sep) ==
    IF \A i \in 1..Len(s) : Char(s, i) # sep
    THEN <<s>>
    ELSE LET i == CHOOSE k \in 1..Len(s) :
                    /\ Char(s, k) = sep
                    /\ \A j \in 1..(k - 1) : Char(s, j) # sep
         IN  <<SubSeq(s, 1, i - 1)>> \o split(SubSeq(s, i + 1, Len(s)), sep)

\* Python: sep.join(parts); a str argument is joined character by character
RECURSIVE join(_, _)
join(sep, parts) ==
    IF Len(parts) = 0 THEN ""
    ELSE IF Len(parts) = 1 THEN Head(parts)
    ELSE Head(parts) \o sep \o join(sep, Tail(parts))

\* The characters of the labels in ascending code-point order.
CodePoints == "0123456789:ABCDEFGHIJKLMNOPQRSTUVWXYZ"

Ord(c) == CHOOSE i \in 1..Len(CodePoints) : Char(CodePoints, i) = c

\* Python: a < b on str (lexicographic by code point, a proper prefix is smaller)
RECURSIVE StrLess(_, _)
StrLess(a, b) ==
    IF Len(b) = 0 THEN FALSE
    ELSE IF Len(a) = 0 THEN TRUE
    ELSE IF Head(a) # Head(b) THEN Ord(Head(a)) < Ord(Head(b))
    ELSE StrLess(Tail(a), Tail(b))

----------------------------------------------------------------------------
(* Inputs of the stratifier                                                *)

SolventNames == {"TIP3"}

\* The last label is of a ligand atom whose atom name is spelt as the solvent's
\* residue name is.
ResidueLabels ==
    {"A:LYS:10:NZ:5", "B:PHE:20:CG:50", "A:GLY:30:N:7", "A:ALA:31:O:9",
     "A:LIG:40:TIP3:11"}

WaterLabels == {"W:TIP3:757:OH2:23", "W:TIP3:87:OH2:29"}

HbLabels == ResidueLabels \cup WaterLabels

\* The (atom1_label, atom2_label) pairs the hbond finder may report.
HbondPairs ==
    { <<"A:LYS:10:NZ:5", "B:PHE:20:CG:50">>,
      <<"A:LYS:10:NZ:5", "A:GLY:30:N:7">>,
      <<"A:ALA:31:O:9", "B:PHE:20:CG:50">>,
      <<"A:GLY:30:N:7", "A:ALA:31:O:9">>,
      <<"A:LYS:10:NZ:5", "W:TIP3:757:OH2:23">>,
      <<"W:TIP3:757:OH2:23", "A:LYS:10:NZ:5">>,
      <<"W:TIP3:757:OH2:23", "B:PHE:20:CG:50">>,
      <<"A:GLY:30:N:7", "W:TIP3:757:OH2:23">>,
      <<"B:PHE:20:CG:50", "W:TIP3:87:OH2:29">>,
      <<"W:TIP3:87:OH2:29", "A:LYS:10:NZ:5">>,
      <<"W:TIP3:757:OH2:23", "W:TIP3:87:OH2:29">>,
      <<"W:TIP3:87:OH2:29", "W:TIP3:757:OH2:23">>,
      <<"A:LIG:40:TIP3:11", "A:LYS:10:NZ:5">> }

\* All hbonds of one call carry the frame index of the frame under analysis.
FrameIdx == 1

----------------------------------------------------------------------------
(* Inputs of the pi-cation detector                                        *)

\* index_to_label: VMD atom index -> "chain:resname:resid:name:index"
index_to_label ==
    (5 :> "A:LYS:10:NZ:5") @@ (6 :> "A:ARG:11:NH1:6") @@
    (50 :> "B:PHE:20:CG:50") @@ (51 :> "B:PHE:20:CE1:51") @@
    (52 :> "B:PHE:20:CE2:52") @@ (60 :> "C:TYR:20:CG:60")

\* The atoms of the two selections of lines 57-58.
CationIndices == {5, 6}
AromaticIndices == {50, 51, 52, 60}

PcLabels == { index_to_label[i] : i \in DOMAIN index_to_label }

AllLabels == HbLabels \cup PcLabels

\* Position of a label in Python's str order among the labels of the model.
LabelRank ==
    [l \in AllLabels |-> Cardinality({m \in AllLabels : StrLess(m, l)})]

\* Python: solvent in label and label.split(":"), computed once for each label
\* of the model.
SolventInLabel ==
    [l \in AllLabels |-> [solvent \in SolventNames |-> Contains(l, solvent)]]

LabelFields == [l \in AllLabels |-> split(l, ":")]

In(solvent, label) == SolventInLabel[label][solvent]

\* Python: a < b on sequences of ints (tuple/list comparison)
RECURSIVE SeqLess(_, _)
SeqLess(a, b) ==
    IF Len(b) = 0 THEN FALSE
    ELSE IF Len(a) = 0 THEN TRUE
    ELSE IF Head(a) # Head(b) THEN Head(a) < Head(b)
    ELSE SeqLess(Tail(a), Tail(b))

\* Comparison key of a pair (label, label) or of a tuple (frame_idx, label, ...,
\* label, itype): labels compare as their strings do, and the trailing itype
\* is the same string throughout one list.
SortKey(t) ==
    IF Len(t) = 2 THEN <<LabelRank[t[1]], LabelRank[t[2]]>>
    ELSE [i \in 1..Len(t) |->
            IF i = 1 THEN t[1]
            ELSE IF i = Len(t) THEN 0 ELSE LabelRank[t[i]]]

\* Python: sorted(S) of a set (or list without repeats) of tuples
RECURSIVE sorted(_)
sorted(S) ==
    IF S = {} THEN <<>>
    ELSE LET m == CHOOSE x \in S :
                    \A y \in S \ {x} : SeqLess(SortKey(x), SortKey(y))
         IN  <<m>> \o sorted(S \ {m})

Range(s) == { s[i] : i \in 1..Len(s) }

\* Python: sorted(list(S)) of a set of label strings
RECURSIVE sorted_labels(_)
sorted_labels(S) ==
    IF S = {} THEN <<>>
    ELSE LET m == CHOOSE x \in S : \A y \in S \ {x} : LabelRank[x] < LabelRank[y]
         IN  <<m>> \o sorted_labels(S \ {m})

\* Python: itertools.combinations(lst, 2)
combinations2(lst) ==
    { <<lst[q[1]], lst[q[2]]>> :
        q \in { ij \in (1..Len(lst)) \X (1..Len(lst)) : ij[1] < ij[2] } }

\* A call's outcome: it returns a value or raises.
Returned(v) == [status |-> "ok", value |-> v]
Raised(e)   == [status |-> e, value |-> <<>>]

----------------------------------------------------------------------------
(* stratify_hbonds.py                                                      *)

residue_vs_water_hbonds(hbs, solvent) ==
    LET IsWaterHbond(hbond) ==
            In(solvent, hbond[2]) \/ In(solvent, hbond[3])
        IsResidueHbond(hbond) == ~IsWaterHbond(hbond)
    IN  <<SelectSeq(hbs, IsResidueHbond), SelectSeq(hbs, IsWaterHbond)>>

backbone_atoms == {"N", "O"}

\* [frame_idx, atom1_label, atom2_label, itype] for each hbond of hbs
Retag(hbs, itype) ==
    [i \in 1..Len(hbs) |-> <<hbs[i][1], hbs[i][2], hbs[i][3], itype>>]

\* Mutant: the hbsb test of line 60 without its second alternative.
stratify_residue_hbonds_half_hbsb(residue_hbonds) ==
    LET atom1(hbond) == LabelFields[hbond[2]][4]
        atom2(hbond) == LabelFields[hbond[3]][4]
        ss(hbond) == atom1(hbond) \notin backbone_atoms /\ atom2(hbond) \notin backbone_atoms
        sb(hbond) == atom1(hbond) \notin backbone_atoms /\ atom2(hbond) \in backbone_atoms
        bb(hbond) == atom1(hbond) \in backbone_atoms /\ atom2(hbond) \in backbone_atoms
    IN  << Retag(SelectSeq(residue_hbonds, ss), "hbss"),
           Retag(SelectSeq(residue_hbonds, sb), "hbsb"),
           Retag(SelectSeq(residue_hbonds, bb), "hbbb") >>

stratify_residue_hbonds(residue_hbonds) ==
    LET atom1(hbond) == LabelFields[hbond[2]][4]
        atom2(hbond) == LabelFields[hbond[3]][4]
        ss(hbond) == atom1(hbond) \notin backbone_atoms /\ atom2(hbond) \notin backbone_atoms
        sb(hbond) == \/ (atom1(hbond) \notin backbone_atoms /\ atom2(hbond) \in backbone_atoms)
                     \/ (atom1(hbond) \in backbone_atoms /\ atom2(hbond) \notin backbone_atoms)
        bb(hbond) == atom1(hbond) \in backbone_atoms /\ atom2(hbond) \in backbone_atoms
    IN  << Retag(SelectSeq(residue_hbonds, ss), "hbss"),
           Retag(SelectSeq(residue_hbonds, sb), "hbsb"),
           Retag(SelectSeq(residue_hbonds, bb), "hbbb") >>

\* Python local variables: a name is bound once it has been assigned.
NoLocals == [raised |-> ""]
Bound(locals, name) == name \in DOMAIN locals
Assign(locals, name, v) == (name :> v) @@ locals

\* Mutant: the branch of line 93 taken whenever the one of line 90 is not.
WaterMapIteration_else_branch(l0, hbond, solvent) ==
    LET l1 == Assign(l0, "frame_idx", hbond[1])
        atom1_label == hbond[2]
        atom2_label == hbond[3]
        in1 == In(solvent, atom1_label)
        in2 == In(solvent, atom2_label)
    IN  IF in1 /\ in2
        THEN Assign(l1, "_solvent_bridges",
                    Append(l1["_solvent_bridges"], <<atom1_label, atom2_label>>))
        ELSE LET l2 == IF in1 /\ ~in2
                       THEN Assign(Assign(l1, "water", atom1_label), "protein", atom2_label)
                       ELSE Assign(Assign(l1, "water", atom2_label), "protein", atom1_label)
             IN  IF ~Bound(l2, "water") \/ ~Bound(l2, "protein")
                 THEN Assign(l2, "raised", "UnboundLocalError")
                 ELSE LET w2r == l2["water_to_residues"]
                          w2r1 == IF l2["water"] \notin DOMAIN w2r
                                  THEN (l2["water"] :> {}) @@ w2r
                                  ELSE w2r
                      IN  Assign(l2, "water_to_residues",
                                 [w2r1 EXCEPT ![l2["water"]] = @ \cup {l2["protein"]}])

\* One iteration of the loop of lines 85-99 over hbond.
WaterMapIteration(l0, hbond, solvent) ==
    LET l1 == Assign(l0, "frame_idx", hbond[1])
        atom1_label == hbond[2]
        atom2_label == hbond[3]
        in1 == In(solvent, atom1_label)
        in2 == In(solvent, atom2_label)
    IN  IF in1 /\ in2
        THEN Assign(l1, "_solvent_bridges",
                    Append(l1["_solvent_bridges"], <<atom1_label, atom2_label>>))
        ELSE LET l2 == IF in1 /\ ~in2
                       THEN Assign(Assign(l1, "water", atom1_label), "protein", atom2_label)
                       ELSE IF ~in1 /\ in2
                       THEN Assign(Assign(l1, "water", atom2_label), "protein", atom1_label)
                       ELSE l1
             IN  IF ~Bound(l2, "water") \/ ~Bound(l2, "protein")
                 THEN Assign(l2, "raised", "UnboundLocalError")
                 ELSE LET w2r == l2["water_to_residues"]
                          w2r1 == IF l2["water"] \notin DOMAIN w2r
                                  THEN (l2["water"] :> {}) @@ w2r
                                  ELSE w2r
                      IN  Assign(l2, "water_to_residues",
                                 [w2r1 EXCEPT ![l2["water"]] = @ \cup {l2["protein"]}])

RECURSIVE WaterMapLoop(_, _, _)
WaterMapLoop(l0, hbs, solvent) ==
    IF Len(hbs) = 0 \/ l0["raised"] # "" THEN l0
    ELSE WaterMapLoop(WaterMapIteration(l0, Head(hbs), solvent), Tail(hbs), solvent)

\* Mutant: line 106 tests key1 alone.
RECURSIVE DedupBridges_key1_only(_, _)
DedupBridges_key1_only(kept, bridges) ==
    IF Len(bridges) = 0 THEN kept
    ELSE DedupBridges_key1_only(kept \cup {Head(bridges)}, Tail(bridges))

\* The loop of lines 102-107: keep (w1, w2) unless it or (w2, w1) is kept already.
RECURSIVE DedupBridges(_, _)
DedupBridges(kept, bridges) ==
    IF Len(bridges) = 0 THEN kept
    ELSE LET key1 == Head(bridges)
             key2 == <<key1[2], key1[1]>>
         IN  DedupBridges(IF key1 \notin kept /\ key2 \notin kept
                          THEN kept \cup {key1} ELSE kept,
                          Tail(bridges))

EmptyMap == [w \in {} |-> {}]

\* Lines 101-110, with the locals l1 the loop of lines 85-99 leaves.
WaterMapReturn(l1) ==
    IF l1["raised"] # "" THEN Raised(l1["raised"])
    ELSE IF ~Bound(l1, "frame_idx") THEN Raised("UnboundLocalError")
    ELSE Returned(<<l1["frame_idx"], l1["water_to_residues"],
                    sorted(DedupBridges({}, l1["_solvent_bridges"]))>>)

calc_water_to_residues_map(water_hbonds, solvent) ==
    WaterMapReturn(
        WaterMapLoop(Assign(Assign(NoLocals, "water_to_residues", EmptyMap),
                            "_solvent_bridges", <<>>),
                     water_hbonds, solvent))

\* Mutant: every ordered pair of the residue atoms instead of the combinations.
WaterBridges_permutations(r) ==
    IF r.status # "ok" THEN r
    ELSE LET frame_idx == r.value[1]
             water_to_residues == r.value[2]
             water_bridges ==
                UNION { { <<frame_idx, pair[1], water, pair[2], "wb">> :
                            pair \in { q \in water_to_residues[water] \X water_to_residues[water] :
                                         q[1] # q[2] } } :
                        water \in DOMAIN water_to_residues }
         IN  Returned(sorted(water_bridges))

\* Lines 119-129, with r what calc_water_to_residues_map did; an exception
\* of the callee is the caller's.
WaterBridges(r) ==
    IF r.status # "ok" THEN r
    ELSE LET frame_idx == r.value[1]
             water_to_residues == r.value[2]
             water_bridges ==
                UNION { { <<frame_idx, pair[1], water, pair[2], "wb">> :
                            pair \in { q \in combinations2(sorted_labels(water_to_residues[water])) :
                                         q[1] # q[2] } } :
                        water \in DOMAIN water_to_residues }
         IN  Returned(sorted(water_bridges))

stratify_water_bridge(water_hbonds, solvent) ==
    WaterBridges(calc_water_to_residues_map(water_hbonds, solvent))

\* Mutant: pairs of distinct residue atoms only, as for the direct bridges.
ExtendedWaterBridges_distinct(r) ==
    IF r.status # "ok" THEN r
    ELSE LET frame_idx == r.value[1]
             water_to_residues == r.value[2]
             solvent_bridges == r.value[3]
             used == { b \in Range(solvent_bridges) :
                         b[1] \in DOMAIN water_to_residues /\ b[2] \in DOMAIN water_to_residues }
             extended_water_bridges ==
                UNION { { <<frame_idx, q[1], b[1], b[2], q[2], "wb2">> :
                            q \in { x \in water_to_residues[b[1]] \X water_to_residues[b[2]] :
                                      x[1] # x[2] } } :
                        b \in used }
         IN  Returned(sorted(extended_water_bridges))

\* Lines 141-156, with r what calc_water_to_residues_map did.
ExtendedWaterBridges(r) ==
    IF r.status # "ok" THEN r
    ELSE LET frame_idx == r.value[1]
             water_to_residues == r.value[2]
             solvent_bridges == r.value[3]
             used == { b \in Range(solvent_bridges) :
                         b[1] \in DOMAIN water_to_residues /\ b[2] \in DOMAIN water_to_residues }
             extended_water_bridges ==
                UNION { { <<frame_idx, atom1, b[1], b[2], atom2, "wb2">> :
                            atom1 \in water_to_residues[b[1]],
                            atom2 \in water_to_residues[b[2]] } :
                        b \in used }
         IN  Returned(sorted(extended_water_bridges))

stratify_extended_water_bridge(water_hbonds, solvent) ==
    ExtendedWaterBridges(calc_water_to_residues_map(water_hbonds, solvent))

\* Mutant: line 184 with wb2 ahead of wb.
Concatenate_wb2_first(classes, wb, wb2) ==
    IF wb.status # "ok" THEN wb
    ELSE IF wb2.status # "ok" THEN wb2
    ELSE Returned(classes[1] \o classes[2] \o classes[3] \o wb2.value \o wb.value)

\* Line 184, with the three lists of line 180 and what the calls of lines
\* 181 and 182 did.
Concatenate(classes, wb, wb2) ==
    IF wb.status # "ok" THEN wb
    ELSE IF wb2.status # "ok" THEN wb2
    ELSE Returned(classes[1] \o classes[2] \o classes[3] \o wb.value \o wb2.value)

stratify_hbond_subtypes(hbs, solvent) ==
    Concatenate(stratify_residue_hbonds(residue_vs_water_hbonds(hbs, solvent)[1]),
                stratify_water_bridge(hbs, solvent),
                stratify_extended_water_bridge(hbs, solvent))

----------------------------------------------------------------------------
(* contact_utils.py: parsing and geometry                                  *)
(*                                                                         *)
(* Coordinates are whole numbers of angstroms.  A length is carried as its *)
(* square (a > b iff a*a > b*b for lengths), and an angle is computed from *)
(* the exact sign and square of its cosine, so that every comparison the   *)
(* code makes has the outcome it has on the real numbers.                  *)

\* "measure contacts" lists the pairs as two parallel index lists.
parse_contacts(contact_string) ==
    LET atom1_list == contact_string[1]
        atom2_list == contact_string[2]
    IN  IF Len(atom1_list) = 0 \/ Len(atom2_list) = 0 THEN <<>>
        ELSE [idx \in 1..Len(atom1_list) |-> <<atom1_list[idx], atom2_list[idx]>>]

Dot(v1, v2) == v1[1] * v2[1] + v1[2] * v2[2] + v1[3] * v2[3]

Cross(v1, v2) ==
    << v1[2] * v2[3] - v1[3] * v2[2],
       v1[3] * v2[1] - v1[1] * v2[3],
       v1[1] * v2[2] - v1[2] * v2[1] >>

points_to_vector(point1, point2) ==
    <<point2[1] - point1[1], point2[2] - point1[2], point2[3] - point1[3]>>

\* The square of the length math.sqrt(np.dot(vector, vector)).
calc_vector_length(vector) == Dot(vector, vector)

\* A float that is a number of degrees, or nan.
Degrees(d) == [nan |-> FALSE, deg |-> d]
NaN == [nan |-> TRUE, deg |-> 0]

\* math.degrees(math.acos(dot / (length1 * length2))).  The quotient 0/0 of
\* a zero-length vector is numpy's nan, which acos and degrees hand on.  The
\* angles 0, 60, 90, 120 and 180 are returned as such; an angle strictly
\* between two of them is returned as the midpoint of the two.
calc_angle_between_vectors(vector1, vector2) ==
    LET dot == Dot(vector1, vector2)
        len2 == calc_vector_length(vector1) * calc_vector_length(vector2)
    IN  IF len2 = 0 THEN NaN
        ELSE IF dot = 0 THEN Degrees(90)
        ELSE IF dot > 0
        THEN IF dot * dot = len2 THEN Degrees(0)
             ELSE IF 4 * dot * dot > len2 THEN Degrees(30)
             ELSE IF 4 * dot * dot = len2 THEN Degrees(60)
             ELSE Degrees(75)
        ELSE IF dot * dot = len2 THEN Degrees(180)
             ELSE IF 4 * dot * dot > len2 THEN Degrees(150)
             ELSE IF 4 * dot * dot = len2 THEN Degrees(120)
             ELSE Degrees(105)

\* The square of np.linalg.norm(point1 - point2).
calc_geom_distance(point1, point2) ==
    calc_vector_length(points_to_vector(point2, point1))

\* (point1 + point2 + point3)/3; the aromatic atoms of the model sit on
\* coordinates that are multiples of 3, so the quotient is exact.
calc_geom_centroid(point1, point2, point3) ==
    [i \in 1..3 |-> (point1[i] + point2[i] + point3[i]) \div 3]

calc_geom_normal_vector(point1, point2, point3) ==
    LET v1 == points_to_vector(point1, point3)
        v2 == points_to_vector(point1, point2)
    IN  Cross(v1, v2)

\* get_coord, given the coordinates coord of the frame: the atom is looked
\* up by the last field of its label.
get_coord(coord, atom_label) ==
    LET fields == split(atom_label, ":")
        index == fields[Len(fields)]
    IN  coord[index]

----------------------------------------------------------------------------
(* pi_cation.py                                                            *)

DISTANCE_CUTOFF == 6
SOFT_DISTANCE_CUTOFF == 10
ANGLE_CUTOFF == 60

\* Python float arithmetic on an angle: x - c, math.fabs(x), min(x, y), x > c.
\* nan propagates through - and fabs, every comparison with nan is False, and
\* min(x, y) is y if y < x else x.
Minus(x, c) == IF x.nan THEN NaN ELSE Degrees(x.deg - c)
fabs(x) == IF x.nan THEN NaN ELSE Degrees(IF x.deg < 0 THEN 0 - x.deg ELSE x.deg)
Less(x, y) == ~x.nan /\ ~y.nan /\ x.deg < y.deg
min(x, y) == IF Less(y, x) THEN y ELSE x
Greater(x, c) == ~x.nan /\ x.deg > c

\* Line 106.
FoldAngle_no_fold(cation_norm_offset_angle) ==
    fabs(Minus(cation_norm_offset_angle, 0))

FoldAngle(cation_norm_offset_angle) ==
    min(fabs(Minus(cation_norm_offset_angle, 0)),
        fabs(Minus(cation_norm_offset_angle, 180)))

\* Line 76.
GroupKey(cation_label, aromatic_label) ==
    cation_label \o ":" \o join(":", split(aromatic_label, ":")[3])

\* Lines 72-79, over the contact pairs left to read.
RECURSIVE GroupContacts(_, _)
GroupContacts(grouping, contact_index_pairs) ==
    IF Len(contact_index_pairs) = 0 THEN grouping
    ELSE LET cation_label == index_to_label[Head(contact_index_pairs)[1]]
             aromatic_label == index_to_label[Head(contact_index_pairs)[2]]
             key == GroupKey(cation_label, aromatic_label)
             g1 == IF key \notin DOMAIN grouping
                   THEN (key :> {}) @@ grouping
                   ELSE grouping
         IN  GroupContacts([g1 EXCEPT ![key] = @ \cup {aromatic_label}],
                           Tail(contact_index_pairs))

\* Line 86.
IncompleteGroup_fewer_than_3(aromatic_atom_labels) ==
    Cardinality(aromatic_atom_labels) < 3

IncompleteGroup(aromatic_atom_labels) ==
    Cardinality(aromatic_atom_labels) # 3

\* Lines 110-112.
AppendGroup_two_records(records, frame_idx, cation_atom_label, arom_atom_labels) ==
    records \o << <<frame_idx, cation_atom_label, arom_atom_labels[1], "pc">>,
                  <<frame_idx, cation_atom_label, arom_atom_labels[2], "pc">> >>

AppendGroup(records, frame_idx, cation_atom_label, arom_atom_labels) ==
    records \o << <<frame_idx, cation_atom_label, arom_atom_labels[1], "pc">>,
                  <<frame_idx, cation_atom_label, arom_atom_labels[2], "pc">>,
                  <<frame_idx, cation_atom_label, arom_atom_labels[2], "pc">> >>

\* The angle of line 105 for the ring atoms in the order given.
NormOffsetAngle(cation_coord, arom_atom1_coord, arom_atom2_coord, arom_atom3_coord) ==
    LET aromatic_centroid ==
            calc_geom_centroid(arom_atom1_coord, arom_atom2_coord, arom_atom3_coord)
        aromatic_plane_norm_vec ==
            calc_geom_normal_vector(arom_atom1_coord, arom_atom2_coord, arom_atom3_coord)
        aromatic_center_to_cation_vec == points_to_vector(aromatic_centroid, cation_coord)
    IN  calc_angle_between_vectors(aromatic_plane_norm_vec, aromatic_center_to_cation_vec)

\* One iteration of the loop of lines 83-112 for the key: how it ends, the
\* get_coord calls it makes and the list of records after it.
Iteration(key, grouping, records, coord, frame_idx) ==
    LET cation_atom_label == join(":", SubSeq(split(key, ":"), 1, 5))
        aromatic_atom_labels == grouping[key]
        labels == sorted_labels(aromatic_atom_labels)
    IN  IF IncompleteGroup(aromatic_atom_labels)
        THEN [outcome |-> "skipped", queries |-> <<>>, records |-> records]
        ELSE IF Len(labels) # 3
        THEN [outcome |-> "ValueError", queries |-> <<>>, records |-> records]
        ELSE
        LET cation_coord == get_coord(coord, cation_atom_label)
            arom_atom1_coord == get_coord(coord, labels[1])
            arom_atom2_coord == get_coord(coord, labels[2])
            arom_atom3_coord == get_coord(coord, labels[3])
            queries == <<cation_atom_label, labels[1], labels[2], labels[3]>>
            aromatic_centroid ==
                calc_geom_centroid(arom_atom1_coord, arom_atom2_coord, arom_atom3_coord)
            cation_to_centroid_distance == calc_geom_distance(cation_coord, aromatic_centroid)
            cation_norm_offset_angle ==
                FoldAngle(NormOffsetAngle(cation_coord, arom_atom1_coord,
                                          arom_atom2_coord, arom_atom3_coord))
        IN  IF cation_to_centroid_distance > DISTANCE_CUTOFF * DISTANCE_CUTOFF
            THEN [outcome |-> "distance", queries |-> queries, records |-> records]
            ELSE IF Greater(cation_norm_offset_angle, ANGLE_CUTOFF)
            THEN [outcome |-> "angle", queries |-> queries, records |-> records]
            ELSE [outcome |-> "accepted", queries |-> queries,
                  records |-> AppendGroup(records, frame_idx, cation_atom_label, labels)]

----------------------------------------------------------------------------
(* The stratifier as a state machine: the per-frame driver collects the    *)
(* frame's hbonds and calls stratify_hbond_subtypes on them.  calls logs,  *)
(* for every function reached during that call, how its call ended.        *)

NoCalls == [fn \in {} |-> Raised("")]

\* The log of a run in which the callees ended as given: line 182 is not
\* reached when line 181 raises.
CallLog(partition, classes, map, wb, wb2, top) ==
    LET reached ==
            ("residue_vs_water_hbonds" :> Returned(partition)) @@
            ("stratify_residue_hbonds" :> Returned(classes)) @@
            ("calc_water_to_residues_map" :> map) @@
            ("stratify_water_bridge" :> wb) @@
            ("stratify_hbond_subtypes" :> top)
    IN  IF wb.status = "ok"
        THEN ("stratify_extended_water_bridge" :> wb2) @@ reached
        ELSE reached

\* The calls of lines 178-185 and, within them, of lines 118 and 139.
StratifyCalls(hbs, solvent) ==
    CallLog(residue_vs_water_hbonds(hbs, solvent),
            stratify_residue_hbonds(residue_vs_water_hbonds(hbs, solvent)[1]),
            calc_water_to_residues_map(hbs, solvent),
            stratify_water_bridge(hbs, solvent),
            stratify_extended_water_bridge(hbs, solvent),
            stratify_hbond_subtypes(hbs, solvent))

HbInit ==
    /\ hbonds = <<>>
    /\ solvent_resn \in SolventNames
    /\ calls = NoCalls

\* The hbond finder reports one more hbond of the frame.
AddHbond ==
    /\ calls = NoCalls
    /\ Len(hbonds) < MaxHbonds
    /\ \E p \in HbondPairs :
          hbonds' = Append(hbonds, <<FrameIdx, p[1], p[2], "hb">>)
    /\ UNCHANGED <<solvent_resn, calls>>

\* stratify_hbond_subtypes(hbonds, solvent_resn)
Stratify ==
    /\ calls = NoCalls
    /\ calls' = StratifyCalls(hbonds, solvent_resn)
    /\ UNCHANGED <<hbonds, solvent_resn>>

\* The driver moves on to the next frame.
NextFrame ==
    /\ calls # NoCalls
    /\ hbonds' = <<>>
    /\ calls' = NoCalls
    /\ UNCHANGED solvent_resn



----------------------------------------------------------------------------
(* The detector as a state machine: the backend holds the frame's          *)
(* coordinates and reports the contacts within the soft cutoff;            *)
(* compute_pi_cation groups them and visits the groups one by one, in the  *)
(* order the dict yields them, which is any order.                         *)

\* The aromatic atoms; every coordinate a multiple of 3.
AromaticCoords ==
    ("50" :> <<3, -3, 0>>) @@ ("51" :> <<-3, 3, 3>>) @@
    ("52" :> <<0, 0, -3>>) @@ ("60" :> <<3, 3, -3>>)

\* Where a cation may sit.  The ring 50-51-52 has its centroid at the origin
\* and its normal along (1, 1, 0).
CationPoints ==
    { <<3, 3, 0>>, <<3, 0, 3>>, <<3, 0, 0>>, <<2, 0, 4>>, <<0, 0, 3>>,
      <<-2, 0, -4>>, <<-3, 0, 0>>, <<-3, 0, -3>>, <<-3, -3, 0>>,
      <<0, 6, 0>>, <<5, 5, 0>>, <<0, 0, 0>> }

IdleLoop == [key |-> "", size |-> 0, outcome |-> "", appended |-> 0]

NoGrouping == [key \in {} |-> {}]

PcInit ==
    /\ \E c5 \in CationPoints, c6 \in {<<3, 3, 0>>, <<0, 0, 3>>} :
          coords = ("5" :> c5) @@ ("6" :> c6) @@ AromaticCoords
    /\ contacts = << <<>>, <<>> >>
    /\ at = "measure"
    /\ pi_cation_aromatic_grouping = NoGrouping
    /\ pending = {}
    /\ pi_cations = <<>>
    /\ coord_queries = <<>>
    /\ last = IdleLoop

\* Line 65: the backend lists one more (cation, aromatic atom) pair, in index
\* order, of atoms no further apart than the soft cutoff.
MeasureContact ==
    /\ at = "measure"
    /\ Len(contacts[1]) < MaxContacts
    /\ \E c \in CationIndices, a \in AromaticIndices :
          /\ Len(contacts[1]) > 0 =>
                LET lc == contacts[1][Len(contacts[1])]
                    la == contacts[2][Len(contacts[2])]
                IN  lc < c \/ (lc = c /\ la < a)
          /\ calc_geom_distance(get_coord(coords, index_to_label[c]),
                                get_coord(coords, index_to_label[a]))
                <= SOFT_DISTANCE_CUTOFF * SOFT_DISTANCE_CUTOFF
          /\ contacts' = <<Append(contacts[1], c), Append(contacts[2], a)>>
    /\ UNCHANGED <<coords, at, pi_cation_aromatic_grouping, pending, pi_cations,
                   coord_queries, last>>

\* Lines 71-79.
Group ==
    /\ at = "measure"
    /\ pi_cation_aromatic_grouping' = GroupContacts(NoGrouping, parse_contacts(contacts))
    /\ pending' = DOMAIN pi_cation_aromatic_grouping'
    /\ at' = "loop"
    /\ UNCHANGED <<coords, contacts, pi_cations, coord_queries, last>>

\* Lines 83-112, for one key.
Iterate ==
    /\ at = "loop"
    /\ \E key \in pending :
          LET it == Iteration(key, pi_cation_aromatic_grouping, pi_cations, coords, FrameIdx)
          IN  /\ pi_cations' = it.records
              /\ coord_queries' = coord_queries \o it.queries
              /\ last' = [key |-> key,
                          size |-> Cardinality(pi_cation_aromatic_grouping[key]),
                          outcome |-> it.outcome,
                          appended |-> Len(it.records) - Len(pi_cations)]
              /\ pending' = pending \ {key}
              /\ at' = IF it.outcome = "ValueError" THEN "raised" ELSE "loop"
    /\ UNCHANGED <<coords, contacts, pi_cation_aromatic_grouping>>

\* Line 114.
Return ==
    /\ at = "loop"
    /\ pending = {}
    /\ at' = "returned"
    /\ UNCHANGED <<coords, contacts, pi_cation_aromatic_grouping, pending, pi_cations,
                   coord_queries, last>>

\* The stratifier's state while the detector runs, and the reverse.
HbIdle ==
    /\ hbonds = <<>>
    /\ solvent_resn = "TIP3"
    /\ calls = NoCalls

PcIdle ==
    /\ coords = ("5" :> <<3, 3, 0>>) @@ ("6" :> <<3, 3, 0>>) @@ AromaticCoords
    /\ contacts = << <<>>, <<>> >>
    /\ at = "measure"
    /\ pi_cation_aromatic_grouping = NoGrouping
    /\ pending = {}
    /\ pi_cations = <<>>
    /\ coord_queries = <<>>
    /\ last = IdleLoop

Init == HbInit /\ PcIdle

Next ==
    \/ AddHbond /\ UNCHANGED pc_vars
    \/ Stratify /\ UNCHANGED pc_vars
    \/ NextFrame /\ UNCHANGED pc_vars

Spec == Init /\ [][Next]_vars

PiCationInit == HbIdle /\ PcInit

PiCationNext ==
    \/ MeasureContact /\ UNCHANGED hb_vars
    \/ Group /\ UNCHANGED hb_vars
    \/ Iterate /\ UNCHANGED hb_vars
    \/ Return /\ UNCHANGED hb_vars

PiCationSpec == PiCationInit /\ [][PiCationNext]_vars

----------------------------------------------------------------------------
(* Properties of the stratifier                                            *)

Ran(fn) == fn \in DOMAIN calls
ReturnedFrom(fn) == Ran(fn) /\ calls[fn].status = "ok"
ValueOf(fn) == calls[fn].value

IsWaterLabel(l) == In(solvent_resn, l)
AtomNameField(l) == LabelFields[l][4]
Endpoints(hbond) == {hbond[2], hbond[3]}
InputLabels == UNION { Endpoints(hbonds[i]) : i \in 1..Len(hbonds) }
Count(x, s) == Cardinality({ i \in 1..Len(s) : s[i] = x })
Itype(rec) == rec[Len(rec)]

\* The class the 2x2 table gives an hbond: by how many endpoints are backbone.
TableClass(hbond) ==
    LET nb == Cardinality({ k \in {2, 3} : AtomNameField(hbond[k]) \in {"N", "O"} })
    IN  IF nb = 0 THEN "hbss" ELSE IF nb = 1 THEN "hbsb" ELSE "hbbb"

ResidueOnly ==
    /\ Len(hbonds) >= 1
    /\ \A l \in InputLabels : ~IsWaterLabel(l)

\* C1 (as claimed): on a non-empty hbond list without any solvent endpoint,
\* stratify_hbond_subtypes returns, and returns exactly the classified
\* residue-residue records; [(1, A:LYS:10:NZ:5, B:PHE:20:CG:50, hb)] gives
\* [[1, A:LYS:10:NZ:5, B:PHE:20:CG:50, hbss]].
C1_ResidueOnlyReturnsClassified ==
    (Ran("stratify_hbond_subtypes") /\ ResidueOnly) =>
        /\ ReturnedFrom("stratify_hbond_subtypes")
        /\ Len(ValueOf("stratify_hbond_subtypes")) = Len(hbonds)
        /\ \A i \in 1..Len(hbonds) :
              Count(<<hbonds[i][1], hbonds[i][2], hbonds[i][3], TableClass(hbonds[i])>>,
                    ValueOf("stratify_hbond_subtypes")) = Count(hbonds[i], hbonds)
        /\ (hbonds = << <<1, "A:LYS:10:NZ:5", "B:PHE:20:CG:50", "hb">> >> =>
              ValueOf("stratify_hbond_subtypes") =
                  << <<1, "A:LYS:10:NZ:5", "B:PHE:20:CG:50", "hbss">> >>)

\* C2: every residue-residue hbond given to stratify_residue_hbonds appears
\* in exactly one of hbss, hbsb, hbbb, as often as in the input, and in the
\* list the 2x2 table on the atom-name fields (N or O = backbone) names.
C2_ResidueHbondsPartitioned ==
    Ran("stratify_residue_hbonds") =>
        LET residue_hbonds == ValueOf("residue_vs_water_hbonds")[1]
            lists == ValueOf("stratify_residue_hbonds")
            tags == <<"hbss", "hbsb", "hbbb">>
        IN  /\ Len(lists[1]) + Len(lists[2]) + Len(lists[3]) = Len(residue_hbonds)
            /\ \A k \in 1..3 : \A i \in 1..Len(lists[k]) : Itype(lists[k][i]) = tags[k]
            /\ \A i \in 1..Len(residue_hbonds) : \A k \in 1..3 :
                  LET h == residue_hbonds[i]
                  IN  Count(<<h[1], h[2], h[3], tags[k]>>, lists[k]) =
                         IF TableClass(h) = tags[k] THEN Count(h, residue_hbonds) ELSE 0

C2_Witness ==
    /\ Ran("stratify_residue_hbonds")
    /\ \A k \in 1..3 : Len(ValueOf("stratify_residue_hbonds")[k]) >= 1

\* The residue atoms hydrogen-bonded to water w in the input, either way round.
ResiduePartners(w) ==
    { r \in InputLabels :
        /\ ~IsWaterLabel(r)
        /\ \E i \in 1..Len(hbonds) : Endpoints(hbonds[i]) = {w, r} }

WbThrough(w, recs) == { i \in 1..Len(recs) : recs[i][3] = w }

\* C3: in the list stratify_water_bridge returns, the wb records through a
\* water w number n*(n-1)/2 for the n distinct residue atoms bonded to w in
\* the input, one record per unordered pair of them.
C3_OneWbPerResiduePair ==
    ReturnedFrom("stratify_water_bridge") =>
        LET wb == ValueOf("stratify_water_bridge")
        IN  \A w \in { l \in InputLabels : IsWaterLabel(l) } :
              LET n == Cardinality(ResiduePartners(w))
              IN  /\ 2 * Cardinality(WbThrough(w, wb)) = n * (n - 1)
                  /\ \A r1, r2 \in ResiduePartners(w) :
                        r1 # r2 =>
                           Cardinality({ i \in WbThrough(w, wb) :
                                           {wb[i][2], wb[i][4]} = {r1, r2} }) = 1

C3_Witness ==
    /\ ReturnedFrom("stratify_water_bridge")
    /\ \E w \in InputLabels :
          /\ IsWaterLabel(w)
          /\ Cardinality(ResiduePartners(w)) = 3
          /\ Cardinality(WbThrough(w, ValueOf("stratify_water_bridge"))) = 3
    /\ \E i, j \in 1..Len(hbonds) :
          i # j /\ hbonds[i][2] = hbonds[j][3] /\ hbonds[i][3] = hbonds[j][2]

\* The hbonds of hbs that do not join atoms a and b.
WithoutBond(hbs, a, b) ==
    LET Other(hbond) == Endpoints(hbond) # {a, b}
    IN  SelectSeq(hbs, Other)

\* C4: the wb2 records stratify_extended_water_bridge returns are exactly
\* the (frame, a1, w1, w2, a2, wb2) with (w1, w2) in the deduplicated
\* solvent-solvent bridge list, w1 and w2 keys of the water-to-residues map,
\* a1 in residues(w1) and a2 in residues(w2), each once; and with the only
\* residue partner of a water removed from the input no wb2 record through
\* that water is returned.
C4_Wb2IsCrossProductOverBridges ==
    ReturnedFrom("stratify_extended_water_bridge") =>
        LET wb2 == ValueOf("stratify_extended_water_bridge")
            frame == ValueOf("calc_water_to_residues_map")[1]
            residues == ValueOf("calc_water_to_residues_map")[2]
            bridges == ValueOf("calc_water_to_residues_map")[3]
        IN  /\ Range(wb2) =
                  { <<frame, a1, w1, w2, a2, "wb2">> :
                      <<a1, w1, w2, a2>> \in
                         { q \in InputLabels \X InputLabels \X InputLabels \X InputLabels :
                             /\ <<q[2], q[3]>> \in Range(bridges)
                             /\ q[2] \in DOMAIN residues
                             /\ q[3] \in DOMAIN residues
                             /\ q[1] \in residues[q[2]]
                             /\ q[4] \in residues[q[3]] } }
            /\ Len(wb2) = Cardinality(Range(wb2))
            /\ \A w \in DOMAIN residues : \A r \in residues[w] :
                  residues[w] = {r} =>
                     LET again == stratify_extended_water_bridge(
                                      WithoutBond(hbonds, w, r), solvent_resn)
                     IN  again.status = "ok" =>
                            \A i \in 1..Len(again.value) :
                               again.value[i][3] # w /\ again.value[i][4] # w

C4_Witness ==
    /\ ReturnedFrom("stratify_extended_water_bridge")
    /\ Len(ValueOf("stratify_extended_water_bridge")) >= 2
    /\ \E w \in DOMAIN ValueOf("calc_water_to_residues_map")[2] :
          /\ Cardinality(ValueOf("calc_water_to_residues_map")[2][w]) = 1
          /\ \E i \in 1..Len(ValueOf("stratify_extended_water_bridge")) :
                ValueOf("stratify_extended_water_bridge")[i][3] = w

\* C5: among the wb and wb2 records stratify_hbond_subtypes returns no
\* record occurs twice, no two wb records are (f, r1, w, r2) and
\* (f, r2, w, r1) with r1 # r2, and no two distinct wb2 records are
\* (f, r1, w1, w2, r2) and (f, r2, w2, w1, r1).
C5_NoBridgeTwice ==
    ReturnedFrom("stratify_hbond_subtypes") =>
        LET recs == ValueOf("stratify_hbond_subtypes")
            wbs == { i \in 1..Len(recs) : Itype(recs[i]) = "wb" }
            wb2s == { i \in 1..Len(recs) : Itype(recs[i]) = "wb2" }
        IN  /\ \A i, j \in wbs :
                  i # j =>
                     /\ recs[i] # recs[j]
                     /\ recs[i] # <<recs[j][1], recs[j][4], recs[j][3], recs[j][2], "wb">>
            /\ \A i, j \in wb2s :
                  i # j =>
                     /\ recs[i] # recs[j]
                     /\ recs[i] # <<recs[j][1], recs[j][5], recs[j][4],
                                    recs[j][3], recs[j][2], "wb2">>

C5_Witness ==
    /\ ReturnedFrom("stratify_hbond_subtypes")
    /\ \E i, j \in 1..Len(hbonds) :
          /\ IsWaterLabel(hbonds[i][2]) /\ IsWaterLabel(hbonds[i][3])
          /\ hbonds[j][2] = hbonds[i][3] /\ hbonds[j][3] = hbonds[i][2]
    /\ \E i \in 1..Len(ValueOf("stratify_hbond_subtypes")) :
          Itype(ValueOf("stratify_hbond_subtypes")[i]) = "wb2"

\* The resname field of a label, and the spec's solvent test on it.
ResnameField(l) == LabelFields[l][2]
ResnameMatches(l) == Contains(ResnameField(l), solvent_resn)

\* C11 (as claimed): the partition puts an hbond among the water-involving
\* ones if and only if the resname field of one of its endpoint labels matches
\* the solvent name; the solvent name in another field of a label does not
\* make the hbond water-involving, neither in the partition nor as a key of
\* the water-to-residues map.
C11_SolventTestOnResnameOnly ==
    Ran("residue_vs_water_hbonds") =>
        LET ByResname(hbond) == ResnameMatches(hbond[2]) \/ ResnameMatches(hbond[3])
            NotByResname(hbond) == ~ByResname(hbond)
        IN  /\ ValueOf("residue_vs_water_hbonds")[2] = SelectSeq(hbonds, ByResname)
            /\ ValueOf("residue_vs_water_hbonds")[1] = SelectSeq(hbonds, NotByResname)
            /\ ReturnedFrom("calc_water_to_residues_map") =>
                  \A w \in DOMAIN ValueOf("calc_water_to_residues_map")[2] :
                     ResnameMatches(w)

\* Some hbond of the input joins the atoms a and b.
InputJoins(a, b) == \E i \in 1..Len(hbonds) : Endpoints(hbonds[i]) = {a, b}

\* C14: when calc_water_to_residues_map returns for the list
\* stratify_hbond_subtypes hands it (the full hbond list), every residue r
\* under a key w of the map is the partner of w in some input hbond, w
\* contains the solvent name and r does not; and every link of a wb or wb2
\* record returned is an input hbond with a solvent endpoint.
C14_MapEntriesAreInputHbonds ==
    /\ ReturnedFrom("calc_water_to_residues_map") =>
          LET residues == ValueOf("calc_water_to_residues_map")[2]
          IN  \A w \in DOMAIN residues : \A r \in residues[w] :
                 /\ Contains(w, solvent_resn)
                 /\ ~Contains(r, solvent_resn)
                 /\ InputJoins(w, r)
    /\ ReturnedFrom("stratify_hbond_subtypes") =>
          LET recs == ValueOf("stratify_hbond_subtypes")
          IN  \A i \in 1..Len(recs) :
                 /\ Itype(recs[i]) = "wb" =>
                       /\ Contains(recs[i][3], solvent_resn)
                       /\ InputJoins(recs[i][2], recs[i][3])
                       /\ InputJoins(recs[i][3], recs[i][4])
                 /\ Itype(recs[i]) = "wb2" =>
                       /\ Contains(recs[i][3], solvent_resn)
                       /\ Contains(recs[i][4], solvent_resn)
                       /\ InputJoins(recs[i][2], recs[i][3])
                       /\ InputJoins(recs[i][3], recs[i][4])
                       /\ InputJoins(recs[i][4], recs[i][5])

\* A returning call on a list with a residue-residue hbond right behind a
\* water-residue hbond, and a water-water hbond, whose map is not empty.
C14_Witness ==
    /\ ReturnedFrom("calc_water_to_residues_map")
    /\ DOMAIN ValueOf("calc_water_to_residues_map")[2] # {}
    /\ \E i \in 2..Len(hbonds) :
          /\ ~IsWaterLabel(hbonds[i][2]) /\ ~IsWaterLabel(hbonds[i][3])
          /\ IsWaterLabel(hbonds[i - 1][2]) # IsWaterLabel(hbonds[i - 1][3])
          /\ ~InputJoins(hbonds[i][2], hbonds[i - 1][2])
          /\ ~InputJoins(hbonds[i][3], hbonds[i - 1][2])
          /\ ~InputJoins(hbonds[i][2], hbonds[i - 1][3])
          /\ ~InputJoins(hbonds[i][3], hbonds[i - 1][3])
    /\ \E i \in 1..Len(hbonds) :
          IsWaterLabel(hbonds[i][2]) /\ IsWaterLabel(hbonds[i][3])
    /\ \E i \in 1..Len(ValueOf("stratify_hbond_subtypes")) :
          Itype(ValueOf("stratify_hbond_subtypes")[i]) = "wb"

\* C15 (as claimed): stratify_hbond_subtypes called with the empty hbond list
\* returns, and returns the empty list.
C15_EmptyListReturnsEmpty ==
    (Ran("stratify_hbond_subtypes") /\ hbonds = <<>>) =>
        /\ ReturnedFrom("stratify_hbond_subtypes")
        /\ ValueOf("stratify_hbond_subtypes") = <<>>

\* The hbond list hbs presented otherwise: its hbonds in the order perm gives,
\* those at the positions of swapped with atom1 and atom2 exchanged.
Presentation(hbs, perm, swapped) ==
    [i \in 1..Len(hbs) |->
        LET hbond == hbs[perm[i]]
        IN  IF perm[i] \in swapped
            THEN <<hbond[1], hbond[3], hbond[2], hbond[4]>>
            ELSE hbond]

Orders(n) == { perm \in [1..n -> 1..n] : \A i, j \in 1..n : perm[i] = perm[j] => i = j }

\* The wb and wb2 records of a returned list, in their order.
BridgeRecords(recs) ==
    LET IsBridge(rec) == Itype(rec) \in {"wb", "wb2"}
    IN  SelectSeq(recs, IsBridge)

\* C16 (as claimed): when stratify_hbond_subtypes returns on the hbond list,
\* then on every other presentation of the list (hbonds reordered, atom1 and
\* atom2 of some hbonds exchanged) on which it returns too, the wb and wb2
\* records it returns are the same.
C16_BridgesIndependentOfPresentation ==
    ReturnedFrom("stratify_hbond_subtypes") =>
        \A perm \in Orders(Len(hbonds)) : \A swapped \in SUBSET (1..Len(hbonds)) :
           LET again == stratify_hbond_subtypes(
                            Presentation(hbonds, perm, swapped), solvent_resn)
           IN  again.status = "ok" =>
                  BridgeRecords(again.value) =
                     BridgeRecords(ValueOf("stratify_hbond_subtypes"))

GroupOrder == <<"hbss", "hbsb", "hbbb", "wb", "wb2">>
GroupIndex(itype) == CHOOSE k \in 1..Len(GroupOrder) : GroupOrder[k] = itype

\* C6: the list stratify_hbond_subtypes returns is hbss + hbsb + hbbb + wb +
\* wb2: the five lists in this order, so that no record of a later group
\* precedes a record of an earlier one.
C6_FiveGroupsInOrder ==
    ReturnedFrom("stratify_hbond_subtypes") =>
        LET recs == ValueOf("stratify_hbond_subtypes")
            classes == ValueOf("stratify_residue_hbonds")
        IN  /\ recs = classes[1] \o classes[2] \o classes[3]
                        \o ValueOf("stratify_water_bridge")
                        \o ValueOf("stratify_extended_water_bridge")
            /\ \A i, j \in 1..Len(recs) :
                  i < j => GroupIndex(Itype(recs[i])) <= GroupIndex(Itype(recs[j]))

C6_Witness ==
    /\ ReturnedFrom("stratify_hbond_subtypes")
    /\ \E i, j \in 1..Len(ValueOf("stratify_hbond_subtypes")) :
          /\ Itype(ValueOf("stratify_hbond_subtypes")[i]) = "wb"
          /\ Itype(ValueOf("stratify_hbond_subtypes")[j]) = "wb2"

----------------------------------------------------------------------------
(* Properties of the pi-cation detector                                    *)

\* The records of the k-th group of three of pi_cations, k = 1, 2, ...
Triple(k) == <<pi_cations[3 * k - 2], pi_cations[3 * k - 1], pi_cations[3 * k]>>

\* C7 (as claimed): the three records of an accepted group name the three
\* aromatic atoms of the group, each atom in exactly one record.
C7_OneRecordPerAromaticAtom ==
    last.outcome = "accepted" =>
        LET group == Triple(Len(pi_cations) \div 3)
            atoms == pi_cation_aromatic_grouping[last.key]
        IN  /\ { group[k][3] : k \in 1..3 } = atoms
            /\ \A a \in atoms : Cardinality({ k \in 1..3 : group[k][3] = a }) = 1

\* The contact pairs read so far, as pairs of labels.
ContactLabels ==
    { <<index_to_label[contacts[1][i]], index_to_label[contacts[2][i]]>> :
        i \in 1..Len(contacts[1]) }

\* The residue of an atom: chain, resname and resid of its label.
ResidueOf(l) == SubSeq(LabelFields[l], 1, 3)

\* The cation a key of the grouping belongs to.
CationOfKey(key) == join(":", SubSeq(split(key, ":"), 1, 5))

\* The aromatic atoms a and b sit in one group of cation c.
InOneGroup(c, a, b) ==
    \E key \in DOMAIN pi_cation_aromatic_grouping :
       /\ CationOfKey(key) = c
       /\ a \in pi_cation_aromatic_grouping[key]
       /\ b \in pi_cation_aromatic_grouping[key]

\* C12 (as claimed): after the grouping step every contact's aromatic atom
\* is in a group of its cation, and two aromatic atoms contacting the same
\* cation are in one group if and only if they are atoms of the same residue
\* (chain, resname and resid); atoms of two residues are never merged.
C12_OneGroupPerAromaticResidue ==
    at # "measure" =>
        \A p, q \in ContactLabels :
           p[1] = q[1] =>
              /\ InOneGroup(p[1], p[2], p[2])
              /\ InOneGroup(p[1], p[2], q[2]) <=> (ResidueOf(p[2]) = ResidueOf(q[2]))

\* C8: the number of pc records is a multiple of 3, and the records of each
\* consecutive group of 3 carry one frame_idx and one cation label.
C8_RecordsInTriples ==
    /\ Len(pi_cations) % 3 = 0
    /\ \A k \in 1..(Len(pi_cations) \div 3) :
          \A m \in 1..3 :
             /\ Triple(k)[m][1] = Triple(k)[1][1]
             /\ Triple(k)[m][2] = Triple(k)[1][2]
             /\ Triple(k)[m][4] = "pc"

C8_Witness ==
    /\ at = "returned"
    /\ Len(pi_cations) = 6
    /\ pi_cations[1][2] # pi_cations[4][2]

\* C9: an iteration over a group whose set of aromatic labels has not
\* exactly 3 elements appends no record, calls get_coord for no atom, runs
\* no distance or angle test and does not raise.
C9_IncompleteGroupSkipped ==
    [][ \A key \in pending :
          (/\ at = "loop"
           /\ pending' = pending \ {key}
           /\ Cardinality(pi_cation_aromatic_grouping[key]) # 3)
          => /\ pi_cations' = pi_cations
             /\ coord_queries' = coord_queries
             /\ last'.outcome = "skipped"
             /\ at' = "loop" ]_vars

C9_Witness ==
    /\ last.key # ""
    /\ last.size = 2
    /\ at = "loop"
    /\ Len(pi_cations) = 3

\* The ring atoms of the last iteration, in sorted order, and its cation.
LastRing == sorted_labels(pi_cation_aromatic_grouping[last.key])
LastCation == join(":", SubSeq(split(last.key, ":"), 1, 5))

\* The angle of the last iteration as computed, and as computed from the
\* opposite normal (the second and third ring atom exchanged).
LastAngle ==
    NormOffsetAngle(get_coord(coords, LastCation), get_coord(coords, LastRing[1]),
                    get_coord(coords, LastRing[2]), get_coord(coords, LastRing[3]))
LastAngleOpposite ==
    NormOffsetAngle(get_coord(coords, LastCation), get_coord(coords, LastRing[1]),
                    get_coord(coords, LastRing[3]), get_coord(coords, LastRing[2]))

\* The squared cation-to-centroid distance of the last iteration.
LastDistance ==
    calc_geom_distance(get_coord(coords, LastCation),
                       calc_geom_centroid(get_coord(coords, LastRing[1]),
                                          get_coord(coords, LastRing[2]),
                                          get_coord(coords, LastRing[3])))

\* Python: x <= c on floats; False when x is nan.
AtMost(x, c) == ~x.nan /\ x.deg <= c

\* C13 (as claimed): an iteration over a complete (3-atom) group accepts the
\* group if and only if the cation-to-centroid distance is <= 6.0 and the
\* folded angle is <= 60 (both inclusive); a distance above 6.0 rejects at
\* the distance gate whatever the angle is; an accepted group appends its 3
\* records and a rejected one appends none.
C13_AcceptedIffWithinBothCutoffs ==
    (last.key # "" /\ last.size = 3) =>
        /\ (last.outcome = "accepted") <=>
               /\ LastDistance <= DISTANCE_CUTOFF * DISTANCE_CUTOFF
               /\ AtMost(FoldAngle(LastAngle), ANGLE_CUTOFF)
        /\ LastDistance > DISTANCE_CUTOFF * DISTANCE_CUTOFF => last.outcome = "distance"
        /\ last.appended = IF last.outcome = "accepted" THEN 3 ELSE 0

\* C10: the fold gives an angle t of 0..180 degrees and the angle 180 - t
\* the same value; so a group that reached the angle test is accepted or
\* rejected as it would be with the plane normal negated.
C10_FoldSymmetric ==
    /\ \A t \in 0..180 : FoldAngle(Degrees(t)) = FoldAngle(Degrees(180 - t))
    /\ last.outcome \in {"accepted", "angle"} =>
          /\ FoldAngle(LastAngle) = FoldAngle(LastAngleOpposite)
          /\ ~LastAngle.nan => LastAngleOpposite = Degrees(180 - LastAngle.deg)
          /\ (last.outcome = "angle") <=>
                Greater(FoldAngle(LastAngleOpposite), ANGLE_CUTOFF)

C10_Witness ==
    /\ last.outcome = "angle"
    /\ LastAngle = Degrees(105)
    /\ LastAngleOpposite = Degrees(75)


====
